---- MODULE Spec2Model ----
(***************************************************************************)
(* Progress and gamification engine of the learning-platform backend:      *)
(* points and levels (gamification_service.award_points), daily streaks    *)
(* (update_daily_streak), badges (check_and_award_badge), progress records *)
(* (crud_roadmap.create_user_progress) and the quiz / assignment workflow  *)
(* (progress_service).                                                     *)
(*                                                                         *)
(* Modelling conventions                                                   *)
(*  - Every service call runs to completion inside one request session,    *)
(*    and the session's writes become the store seen by the next call      *)
(*    ("changes still need to be committed by caller context",             *)
(*    gamification_service.py:27).  One action = one call.                 *)
(*  - award_points calls crud_gamification.get_level_by_points, which      *)
(*    crud_gamification.py does not define; the only function of that name *)
(*    is the helper at gamification_service.py:66 ("add to                 *)
(*    crud_gamification.py if preferred"), with the same query as the      *)
(*    fallback at lines 47-48.  The call is modelled as reaching that      *)
(*    helper, get_level_by_points below.                                   *)
(*  - date.today() / datetime.utcnow() are the day counter `today`.        *)
(*  - Optional values: level_id None is NoLevel, a date/time None is       *)
(*    NoDate, meta_data None is NoMeta.                                    *)
(*  - A query's .first() over rows that compare equal under its ORDER BY   *)
(*    (or that has no ORDER BY) may return any of them: such helpers       *)
(*    return the SET of possible results.                                  *)
(*  - A quiz score (the float c / n) is the reduced fraction <<c, n>>; the  *)
(*    float expressions over it are computed in integers, with the inputs  *)
(*    where double rounding changes the result listed in FloatShortfall.   *)
(*  - user.badges is a lazily loaded relationship: a session reads it from *)
(*    the store at its first access and keeps what it read.                *)
(*  - A call that ends in an exception leaves the store as it was (its     *)
(*    session is closed without its writes); an exception caught inside    *)
(*    update_daily_streak or check_and_award_badge lets the call go on.    *)
(*  - Requests that overlap (SpecRace) are two steps each: the reads of a  *)
(*    request, then its writes, with other requests in between.            *)
(***************************************************************************)
EXTENDS Integers, Sequences, FiniteSets, Bags, TLC

\* ---------------------------------------------------------------- bounds
MaxPoints == 12
MaxDay == 2
MaxLevels == 2
MaxRecords == 1
MaxStreakDay == 7
MaxAttempts == 2
MaxLinks == 2
MaxSubmissions == 1
MaxGradePoints == 21
MaxResubmissions == 2

\* ------------------------------------------------------- input domains
UserIds == {"u1"}
LevelNames == {"Beginner", "Expert", "Master"}
LevelMinPoints == {0, 3, 6}
ItemIds == {"i1"}
MODULE_T == "module"
RESOURCE_T == "resource"
ASSIGNMENT_T == "assignment"
QUIZ_T == "quiz"
CompletableTypes == {MODULE_T, RESOURCE_T}
BadgeNames == {"Quiz Taker", "Perfect Score", "Assignment Complete", "Top Marks"}
Deltas == {-1, 0, 1, 4}

NoLevel == 0
NoDate == -1
NoMeta == [k \in {} |-> TRUE]
Unset == "unset"

\* ------------------------------------------------------------- state
VARIABLES
    today,        \* date.today()
    users,        \* User rows: id -> [points, level_id]
    levels,       \* UserLevel rows: id -> [name, min_points]
    badges,       \* Badge rows, keyed by their unique name
    badgeLinks,   \* bag of UserBadgeLink rows [user_id, badge]
    streaks,      \* UserStreak rows: user_id -> [current_streak, longest_streak, last_completed_date]
    progress,     \* bag of UserProgress rows
    attempts,     \* UserQuizAttempt rows, id = index
    submissions,  \* UserAssignmentSubmission rows, id = index
    last,         \* the call that produced this state
    inflight      \* requests that have read the store and not yet written

vars == <<today, users, levels, badges, badgeLinks, streaks, progress,
          attempts, submissions, last, inflight>>

Max(a, b) == IF a >= b THEN a ELSE b
Min(a, b) == IF a <= b THEN a ELSE b

\* ------------------------------------------------- points and levels

\* user.level: the UserLevel row user.level_id refers to, as its min_points
level_min_points(lv, level_id) == lv[level_id].min_points

\* variant: ORDER BY min_points ascending
get_level_by_points_asc(lv, points) ==
    LET eligible == {l \in DOMAIN lv : lv[l].min_points <= points}
        bottom == {l \in eligible :
                      \A m \in eligible : lv[l].min_points <= lv[m].min_points}
    IN  IF eligible = {} THEN {NoLevel} ELSE bottom

\* SELECT ... WHERE min_points <= points ORDER BY min_points DESC, .first()
get_level_by_points(lv, points) ==
    LET eligible == {l \in DOMAIN lv : lv[l].min_points <= points}
        top == {l \in eligible :
                   \A m \in eligible : lv[m].min_points <= lv[l].min_points}
    IN  IF eligible = {} THEN {NoLevel} ELSE top

\* variant: the delta is subtracted
award_points_with_sub(lv, user, points_to_add, eligible_level) ==
    [user EXCEPT !.points = user.points - points_to_add]

\* variant: a user without a level is never given one
award_points_with_keepnone(lv, user, points_to_add, eligible_level) ==
    LET u1 == [user EXCEPT !.points = user.points + points_to_add]
    IN  IF eligible_level # NoLevel /\ u1.level_id # eligible_level
           /\ u1.level_id # NoLevel
           /\ level_min_points(lv, eligible_level)
                  > level_min_points(lv, u1.level_id)
        THEN [u1 EXCEPT !.level_id = eligible_level]
        ELSE u1

\* variant: the resolved level is taken whenever it differs
award_points_with_any(lv, user, points_to_add, eligible_level) ==
    LET u1 == [user EXCEPT !.points = user.points + points_to_add]
    IN  IF eligible_level # NoLevel /\ u1.level_id # eligible_level
        THEN [u1 EXCEPT !.level_id = eligible_level]
        ELSE u1

\* the user row after award_points, for the resolved level eligible_level
award_points_with(lv, user, points_to_add, eligible_level) ==
    LET u1 == [user EXCEPT !.points = user.points + points_to_add]
    IN  IF eligible_level # NoLevel /\ u1.level_id # eligible_level
        THEN IF u1.level_id = NoLevel
                \/ level_min_points(lv, eligible_level)
                       > level_min_points(lv, u1.level_id)
             THEN [u1 EXCEPT !.level_id = eligible_level]
             ELSE u1
        ELSE u1

\* variant: no early return for points_to_add <= 0
award_points_noguard(lv, user, points_to_add) ==
    {award_points_with(lv, user, points_to_add, el) :
        el \in get_level_by_points(lv, user.points + points_to_add)}

\* award_points: the set of user rows the call may leave
award_points(lv, user, points_to_add) ==
    IF points_to_add <= 0
    THEN {user}
    ELSE {award_points_with(lv, user, points_to_add, el) :
             el \in get_level_by_points(lv, user.points + points_to_add)}

\* ------------------------------------------------------------ streaks

\* crud_user.get_or_create_user_streak: the stored row or a fresh one
get_or_create_user_streak(st, user_id) ==
    IF user_id \in DOMAIN st
    THEN st[user_id]
    ELSE [current_streak |-> 0, longest_streak |-> 0,
          last_completed_date |-> NoDate]

\* StreakBonusCap: the 5 of min(current_streak, 5)
StreakBonusCap == 5

\* variant: longest_streak is not raised to current_streak
streak_step_nomax(streak_data, day) ==
    LET continued == streak_data.last_completed_date = day - 1
        current_streak == IF continued THEN streak_data.current_streak + 1
                          ELSE 1
    IN  [current_streak |-> current_streak,
         longest_streak |-> streak_data.longest_streak,
         last_completed_date |-> day]

\* variant: a broken streak keeps its count
streak_step_keep(streak_data, day) ==
    LET continued == streak_data.last_completed_date = day - 1
        current_streak == IF continued THEN streak_data.current_streak + 1
                          ELSE Max(streak_data.current_streak, 1)
    IN  [current_streak |-> current_streak,
         longest_streak |-> Max(streak_data.longest_streak, current_streak),
         last_completed_date |-> day]

\* the streak row update_daily_streak writes when last_completed # today
streak_step(streak_data, day) ==
    LET continued == streak_data.last_completed_date = day - 1
        current_streak == IF continued THEN streak_data.current_streak + 1
                          ELSE 1
    IN  [current_streak |-> current_streak,
         longest_streak |-> Max(streak_data.longest_streak, current_streak),
         last_completed_date |-> day]

\* variant: the bonus is not capped
streak_bonus_nocap(streak_data, day) ==
    IF streak_data.last_completed_date = day - 1
    THEN streak_data.current_streak + 1
    ELSE 1

\* the bonus update_daily_streak awards when last_completed # today
streak_bonus(streak_data, day) ==
    IF streak_data.last_completed_date = day - 1
    THEN Min(streak_data.current_streak + 1, StreakBonusCap)
    ELSE 1

\* variant: no early return when last_completed_date is today
update_daily_streak_nocheck(lv, st, user_id, user, day) ==
    LET streak_data == get_or_create_user_streak(st, user_id)
    IN  {[user |-> u2, streak |-> streak_step(streak_data, day)] :
            u2 \in award_points(lv, user, streak_bonus(streak_data, day))}

\* update_daily_streak: the set of [user, streak] pairs the call may leave
update_daily_streak(lv, st, user_id, user, day) ==
    LET streak_data == get_or_create_user_streak(st, user_id)
    IN  IF streak_data.last_completed_date = day
        THEN {[user |-> user, streak |-> streak_data]}
        ELSE {[user |-> u2, streak |-> streak_step(streak_data, day)] :
                 u2 \in award_points(lv, user, streak_bonus(streak_data, day))}

\* ------------------------------------------------------------- badges

\* user.badges as loaded from the store: the names of the badges held
user_badges(links, user_id) ==
    {l.badge : l \in {x \in BagToSet(links) : x.user_id = user_id}}

\* crud_user.add_badge_to_user
add_badge_to_user(links, user_id, badge) ==
    links (+) SetToBag({[user_id |-> user_id, badge |-> badge]})

\* variant: the link is added whether or not the badge is defined
check_and_award_badge_nodef(links, defs, held, user_id, badge_name, check_existing) ==
    IF check_existing /\ badge_name \in held
    THEN [links |-> links, awarded |-> FALSE]
    ELSE [links |-> add_badge_to_user(links, user_id, badge_name),
          awarded |-> TRUE]

\* check_and_award_badge; held is the user.badges collection of the session
check_and_award_badge(links, defs, held, user_id, badge_name, check_existing) ==
    IF check_existing /\ badge_name \in held
    THEN [links |-> links, awarded |-> FALSE]
    ELSE IF badge_name \notin defs
         THEN [links |-> links, awarded |-> FALSE]
         ELSE [links |-> add_badge_to_user(links, user_id, badge_name),
               awarded |-> TRUE]

\* variant: "Quiz Taker" is awarded for every attempt
quiz_badges_always(links, defs, user_id, passed, score) ==
    LET held == user_badges(links, user_id)
        b1 == check_and_award_badge(links, defs, held, user_id,
                                    "Quiz Taker", TRUE).links
    IN  IF passed /\ score = <<1, 1>>
        THEN check_and_award_badge(b1, defs, held, user_id,
                                   "Perfect Score", TRUE).links
        ELSE b1

\* submit_quiz step 7: the links after its badge checks
quiz_badges(links, defs, user_id, passed, score) ==
    LET held == user_badges(links, user_id)
        b1 == IF passed
              THEN check_and_award_badge(links, defs, held, user_id,
                                         "Quiz Taker", TRUE).links
              ELSE links
    IN  IF passed /\ score = <<1, 1>>
        THEN check_and_award_badge(b1, defs, held, user_id,
                                   "Perfect Score", TRUE).links
        ELSE b1

\* grade_assignment step 5 (status "passed"): the links after its badge
\* checks; grades are in tenths
assignment_badges(links, defs, user_id, grade) ==
    LET held == user_badges(links, user_id)
        b1 == check_and_award_badge(links, defs, held, user_id,
                                    "Assignment Complete", TRUE).links
    IN  IF grade = 10
        THEN check_and_award_badge(b1, defs, held, user_id,
                                   "Top Marks", TRUE).links
        ELSE b1

\* user.badges of a User object not yet read in its session
NotLoaded == [loaded |-> FALSE, names |-> {}]

\* user.badges: a lazily loaded relationship, read from the store at its
\* first access in a session and kept as loaded from then on (db.add of a
\* UserBadgeLink built from user_id does not touch the loaded collection)
load_user_badges(held, links, user_id) ==
    IF held.loaded THEN held
    ELSE [loaded |-> TRUE, names |-> user_badges(links, user_id)]

\* one check_and_award_badge call of a session: the links, the session's
\* user.badges and what the call returned
badge_call(sess, defs, user_id, call) ==
    LET held == IF call.check_existing
                THEN load_user_badges(sess.held, sess.links, user_id)
                ELSE sess.held
        r == check_and_award_badge(sess.links, defs, held.names, user_id,
                                   call.badge_name, call.check_existing)
    IN  [links |-> r.links, held |-> held,
         rets |-> Append(sess.rets, IF r.awarded THEN "link" ELSE "none")]

\* the check_and_award_badge calls of one session, in order
RECURSIVE badge_calls(_, _, _, _)
badge_calls(sess, defs, user_id, calls) ==
    IF calls = <<>> THEN sess
    ELSE badge_calls(badge_call(sess, defs, user_id, Head(calls)),
                     defs, user_id, Tail(calls))

\* --------------------------------------------------- progress records

\* the rows get_user_progress_for_item's query matches
progress_rows_for_item(prog, user_id, item_id, item_type) ==
    {r \in BagToSet(prog) : /\ r.user_id = user_id
                            /\ r.item_id = item_id
                            /\ r.item_type = item_type}

\* get_user_progress_for_item: the possible results of .first()
get_user_progress_for_item(prog, user_id, item_id, item_type) ==
    LET rows == progress_rows_for_item(prog, user_id, item_id, item_type)
    IN  IF rows = {} THEN {NoMeta} ELSE rows

\* replace one copy of row old by row new
replace_row(prog, old, new) ==
    (prog (-) SetToBag({old})) (+) SetToBag({new})

\* variant: no lookup of an existing row
create_user_progress_insert(prog, progress_in) ==
    {prog (+) SetToBag({progress_in})}

\* variant: an existing row's completed_at is always overwritten
create_user_progress_overwrite(prog, progress_in) ==
    LET found == get_user_progress_for_item(prog, progress_in.user_id,
                     progress_in.item_id, progress_in.item_type)
    IN  {IF existing # NoMeta
         THEN replace_row(prog, existing,
                  [existing EXCEPT !.completed_at = progress_in.completed_at])
         ELSE prog (+) SetToBag({progress_in}) : existing \in found}

\* create_user_progress: the progress tables the call may leave
create_user_progress(prog, progress_in) ==
    LET found == get_user_progress_for_item(prog, progress_in.user_id,
                     progress_in.item_id, progress_in.item_type)
    IN  {IF existing # NoMeta
         THEN IF existing.completed_at = NoDate
                 /\ progress_in.completed_at # NoDate
              THEN replace_row(prog, existing,
                       [existing EXCEPT
                           !.completed_at = progress_in.completed_at,
                           !.meta_data = IF progress_in.meta_data # NoMeta
                                         THEN progress_in.meta_data
                                         ELSE existing.meta_data])
              ELSE prog
         ELSE prog (+) SetToBag({progress_in}) : existing \in found}

\* UserProgressCreate(user_id, item_id, item_type, completed_at, meta_data)
UserProgressCreate(user_id, item_id, item_type, completed_at, meta_data) ==
    [user_id |-> user_id, item_id |-> item_id, item_type |-> item_type,
     completed_at |-> completed_at, meta_data |-> meta_data]

\* dict.update
dict_update(d, upd) ==
    [k \in DOMAIN d \cup DOMAIN upd |-> IF k \in DOMAIN upd THEN upd[k] ELSE d[k]]

\* ------------------------------------- quiz and assignment definitions

NoGrade == -1
NoFeedback == "None"
QuizPassTenths == 7
ModulePoints == 5

\* QuizQuestion ids
QuestionIds == <<"k1", "k2", "k3", "k4", "k5", "k6", "k7", "k8", "k9", "k10",
                 "k11">>

\* n QuizQuestion rows whose correct key is "a"
questions_a(n) ==
    [i \in 1..n |-> [id |-> QuestionIds[i], correct_option_keys |-> <<"a">>]]

\* Quiz rows with their QuizQuestion rows (read-only for the engine)
QuizDefs ==
    [q0 |-> [points_reward |-> 5, questions |-> <<>>],
     q1 |-> [points_reward |-> 5,
             questions |-> << [id |-> "k1", correct_option_keys |-> <<"a">>],
                              [id |-> "k2", correct_option_keys |-> <<"b">>],
                              [id |-> "k3", correct_option_keys |-> <<"a", "b">>],
                              [id |-> "k4", correct_option_keys |-> <<"a">>] >>],
     q2 |-> [points_reward |-> 6, questions |-> questions_a(10)],
     q3 |-> [points_reward |-> 55, questions |-> questions_a(11)]]

\* Assignment rows (read-only for the engine)
AssignmentDefs == [a0 |-> [points_reward |-> 0],
                   a1 |-> [points_reward |-> 10]]

QuizIds == {"q0", "q1", "qx"}
AllQuizIds == DOMAIN QuizDefs \cup {"qx"}
AssignmentIds == {"a1", "ax"}
AllAssignmentIds == DOMAIN AssignmentDefs \cup {"ax"}

\* answer maps submitted to submit_quiz: question id -> list of keys
AnswerMaps ==
    { [k1 |-> <<"a">>, k2 |-> <<"b">>, k3 |-> <<"b", "a">>, k4 |-> <<"a", "a">>],
      [k1 |-> <<"a">>, k2 |-> <<"b">>, k3 |-> <<"a", "b">>, k4 |-> <<"b">>],
      [k1 |-> <<"a">>, k2 |-> <<"b">>, k3 |-> <<"a">>, zz |-> <<"a">>],
      [k1 |-> <<"a">>, k2 |-> <<>>],
      NoMeta }

\* an answer map with key "a" for the first n questions
first_a(n) == [q \in {QuestionIds[i] : i \in 1..n} |-> <<"a">>]

\* answer maps submitted to the longer quizzes as well
QuizAnswerMaps == AnswerMaps \cup {first_a(n) : n \in {6, 7, 11}}

\* <<quiz_id, answers>> inputs: every answer map for the quiz with
\* questions, the empty map for the others
QuizInputs ==
    {qa \in QuizIds \X AnswerMaps :
        \/ qa[1] \in DOMAIN QuizDefs /\ Len(QuizDefs[qa[1]].questions) > 0
        \/ qa[2] = NoMeta}

GradeStatuses == {"passed", "failed"}
GradeValues == {NoGrade, 9, 10}   \* grades in tenths: None, 0.9, 1.0
Feedbacks == {"ok"}

\* arguments of the grading specification: status is a free string, so
\* "submitted" can be sent again; grades None, 0.8 and 0.9
AssignStatuses == GradeStatuses \cup {"submitted"}
AssignGradeValues == {NoGrade, 8, 9}

Range(f) == {f[x] : x \in DOMAIN f}

RECURSIVE Gcd(_, _)
Gcd(a, b) == IF b = 0 THEN a ELSE Gcd(b, a % b)

\* the float correct_answers_count / len(quiz.questions), as a reduced fraction
Fraction(c, n) == LET g == Gcd(c, n) IN <<c \div g, n \div g>>

\* answers.get(str(q.id), [])
answers_get(answers, qid) ==
    IF qid \in DOMAIN answers THEN answers[qid] ELSE <<>>

\* submit_quiz step 2: correct_answers_count
correct_answers_count(quiz, answers) ==
    Cardinality({i \in DOMAIN quiz.questions :
        Range(answers_get(answers, quiz.questions[i].id))
            = Range(quiz.questions[i].correct_option_keys)})

\* variant: a quiz without questions scores 1.0
quiz_score_emptyfull(quiz, answers) ==
    IF Len(quiz.questions) > 0
    THEN Fraction(correct_answers_count(quiz, answers), Len(quiz.questions))
    ELSE <<1, 1>>

\* submit_quiz step 2: score
quiz_score(quiz, answers) ==
    IF Len(quiz.questions) > 0
    THEN Fraction(correct_answers_count(quiz, answers), Len(quiz.questions))
    ELSE <<0, 1>>

\* variant: passed = score > 0.7
quiz_passed_strict(score) == 10 * score[1] > QuizPassTenths * score[2]

\* passed = score >= 0.7
quiz_passed(score) == 10 * score[1] >= QuizPassTenths * score[2]

\* the <<score, points_reward>> pairs of QuizDefs for which the double
\* product score * points_reward * 0.5 is below its exact integer value:
\* (6 / 11) * 55 * 0.5 evaluates to 14.999999999999998
FloatShortfall == {<< <<6, 11>>, 55 >>}

\* int(score * quiz.points_reward * 0.5)
partial_points(quiz, score) ==
    ((score[1] * quiz.points_reward) \div (2 * score[2]))
    - (IF <<score, quiz.points_reward>> \in FloatShortfall THEN 1 ELSE 0)

\* submit_quiz step 5: points_to_award
quiz_points(quiz, score) ==
    IF quiz_passed(score)
    THEN quiz.points_reward + ((score[1] * 5) \div score[2])
    ELSE IF score[1] > 0
         THEN partial_points(quiz, score)
         ELSE 0

\* int(assignment.points_reward * 0.25)
submission_points(assignment) == assignment.points_reward \div 4

\* variant: the submission credit is not deducted
passing_points_full(assignment, grade) ==
    assignment.points_reward
    + (IF grade # NoGrade /\ grade >= 9
       THEN assignment.points_reward \div 10 ELSE 0)

\* grade_assignment step 4: passing_points
passing_points(assignment, grade) ==
    (assignment.points_reward - submission_points(assignment))
    + (IF grade # NoGrade /\ grade >= 9
       THEN assignment.points_reward \div 10 ELSE 0)

\* variant: graded_at is set on every call
update_assignment_submission_always(db_submission, status, grade, feedback, now) ==
    [db_submission EXCEPT !.status = status, !.grade = grade,
                          !.feedback = feedback, !.graded_at = now]

\* crud_roadmap.update_assignment_submission
update_assignment_submission(db_submission, status, grade, feedback, now) ==
    LET s1 == [db_submission EXCEPT !.status = status, !.grade = grade,
                                    !.feedback = feedback]
        status_or_grade_changed == \/ db_submission.status # status
                                   \/ db_submission.grade # grade
    IN  IF status_or_grade_changed THEN [s1 EXCEPT !.graded_at = now] ELSE s1

\* ------------------------------------------------------------ actions

EmptyTable == [k \in {} |-> TRUE]

\* db.add of a row under its primary key
Put(table, key, row) ==
    [k \in DOMAIN table \cup {key} |-> IF k = key THEN row ELSE table[k]]

Call(op, user, args, ret) ==
    [op |-> op, user |-> user, args |-> args, ret |-> ret]

\* UserLevel and Badge rows an installation is seeded with
SeedLevels == <<[name |-> "Beginner", min_points |-> 0],
                [name |-> "Expert", min_points |-> 6]>>

\* a store with level and badge definitions and no user activity yet
Init ==
    /\ today = 1
    /\ users = EmptyTable
    /\ levels = SeedLevels
    /\ badges = BadgeNames
    /\ badgeLinks = EmptyBag
    /\ streaks = EmptyTable
    /\ progress = EmptyBag
    /\ attempts = <<>>
    /\ submissions = <<>>
    /\ last = Call("init", "-", <<>>, "ok")
    /\ inflight = EmptyTable

\* the empty store
InitLedger ==
    /\ today = 1
    /\ users = EmptyTable
    /\ levels = EmptyTable
    /\ badges = {}
    /\ badgeLinks = EmptyBag
    /\ streaks = EmptyTable
    /\ progress = EmptyBag
    /\ attempts = <<>>
    /\ submissions = <<>>
    /\ last = Call("init", "-", <<>>, "ok")
    /\ inflight = EmptyTable

\* the calendar moves on by one or more days
AdvanceDay(d) ==
    /\ today' = today + d
    /\ last' = Call("advance_day", "-", <<>>, "ok")
    /\ UNCHANGED <<users, levels, badges, badgeLinks, streaks, progress,
                   attempts, submissions, inflight>>

\* crud_user.create_user_from_supabase
create_user_from_supabase(u) ==
    /\ u \notin DOMAIN users
    /\ users' = Put(users, u, [points |-> 0, level_id |-> NoLevel])
    /\ last' = Call("create_user", u, <<>>, "ok")
    /\ UNCHANGED <<today, levels, badges, badgeLinks, streaks, progress,
                   attempts, submissions, inflight>>

\* admin_create_new_level -> crud_gamification.create_level
create_level(name, min_points) ==
    /\ \A l \in DOMAIN levels : levels[l].name # name
    /\ levels' = Put(levels, Cardinality(DOMAIN levels) + 1,
                     [name |-> name, min_points |-> min_points])
    /\ last' = Call("create_level", "-", <<>>, "ok")
    /\ UNCHANGED <<today, users, badges, badgeLinks, streaks, progress,
                   attempts, submissions, inflight>>

UnsetPoints == -1

\* admin_update_existing_level -> crud_gamification.update_level
update_level(level_id, name, min_points) ==
    /\ level_id \in DOMAIN levels
    /\ name # Unset =>
          \A l \in DOMAIN levels \ {level_id} : levels[l].name # name
    /\ levels' = [levels EXCEPT ![level_id] =
                    [name |-> IF name # Unset THEN name ELSE @.name,
                     min_points |-> IF min_points # UnsetPoints
                                    THEN min_points ELSE @.min_points]]
    /\ levels' # levels
    /\ last' = Call("update_level", "-", <<>>, "ok")
    /\ UNCHANGED <<today, users, badges, badgeLinks, streaks, progress,
                   attempts, submissions, inflight>>

\* gamification_service.update_daily_streak(db, user)
UpdateDailyStreak(u) ==
    /\ u \in DOMAIN users
    /\ \E r \in update_daily_streak(levels, streaks, u, users[u], today) :
          /\ users' = [users EXCEPT ![u] = r.user]
          /\ streaks' = Put(streaks, u, r.streak)
    /\ last' = Call("update_daily_streak", u,
                    <<get_or_create_user_streak(streaks, u).last_completed_date>>,
                    "ok")
    /\ UNCHANGED <<today, levels, badges, badgeLinks, progress, attempts,
                   submissions, inflight>>

\* progress_service.mark_item_complete(db, user, item_id, item_type)
mark_item_complete(u, item_id, item_type) ==
    /\ u \in DOMAIN users
    /\ \E p2 \in create_user_progress(progress,
                    UserProgressCreate(u, item_id, item_type, today, NoMeta)) :
       \E r \in update_daily_streak(levels, streaks, u, users[u], today) :
       \E uf \in (IF item_type = MODULE_T
                  THEN award_points(levels, r.user, ModulePoints)
                  ELSE {r.user}) :
          /\ progress' = p2
          /\ streaks' = Put(streaks, u, r.streak)
          /\ users' = [users EXCEPT ![u] = uf]
    /\ last' = Call("mark_item_complete", u, <<item_id, item_type>>, "ok")
    /\ UNCHANGED <<today, levels, badges, badgeLinks, attempts, submissions, inflight>>

\* progress_service.submit_quiz(db, user, quiz_id, answers)
submit_quiz(u, quiz_id, answers) ==
    /\ u \in DOMAIN users
    /\ IF quiz_id \notin DOMAIN QuizDefs
       THEN /\ last' = Call("submit_quiz", u, <<quiz_id>>, "not_found")
            /\ UNCHANGED <<today, users, levels, badges, badgeLinks, streaks,
                           progress, attempts, submissions, inflight>>
       ELSE
       LET quiz == QuizDefs[quiz_id]
           score == quiz_score(quiz, answers)
           passed == quiz_passed(score)
           attempt_id == Len(attempts) + 1
           attempt == [user_id |-> u, quiz_id |-> quiz_id, score |-> score,
                       answers |-> answers, passed |-> passed,
                       completed_at |-> today]
           progress_in == UserProgressCreate(u, quiz_id, QUIZ_T,
                              attempt.completed_at,
                              [attempt_id |-> attempt_id, score |-> score,
                               passed |-> passed])
       IN  /\ attempts' = Append(attempts, attempt)
           /\ \E p2 \in create_user_progress(progress, progress_in) :
              \E ua \in award_points(levels, users[u], quiz_points(quiz, score)) :
              \E r \in update_daily_streak(levels, streaks, u, ua, today) :
                 /\ progress' = p2
                 /\ users' = [users EXCEPT ![u] = r.user]
                 /\ streaks' = Put(streaks, u, r.streak)
           /\ badgeLinks' = quiz_badges(badgeLinks, badges, u, passed, score)
           /\ last' = Call("submit_quiz", u, <<quiz_id>>, "ok")
           /\ UNCHANGED <<today, levels, badges, submissions, inflight>>

\* variant: the submission row is added before the assignment is looked up
submit_assignment_addfirst(u, assignment_id) ==
    /\ u \in DOMAIN users
    /\ assignment_id \notin DOMAIN AssignmentDefs
    /\ submissions' = Append(submissions,
                          [user_id |-> u, assignment_id |-> assignment_id,
                           submitted_at |-> today, status |-> "submitted",
                           grade |-> NoGrade, feedback |-> NoFeedback,
                           graded_at |-> NoDate])
    /\ last' = Call("submit_assignment", u, <<assignment_id>>, "not_found")
    /\ UNCHANGED <<today, users, levels, badges, badgeLinks, streaks,
                   progress, attempts, inflight>>

\* the steps of submit_quiz that may raise an exception other than
\* ValueError: create_user_progress, the quiz award_points, the streak
\* row lookup and the bonus award_points inside update_daily_streak,
\* get_badge_by_name and add_badge_to_user inside check_and_award_badge
QuizFaults == {"progress", "award", "streak_read", "streak_award",
               "badge_lookup", "badge_insert"}

\* the faults raised outside update_daily_streak's and
\* check_and_award_badge's own try blocks: they reach submit_quiz's
\* "except Exception", which returns None
PropagatingFaults == {"progress", "award", "badge_lookup"}

\* update_daily_streak when a step inside its try block raises: the
\* exception is logged and None is returned.  A failed streak row lookup
\* leaves everything as it was; a failure in the bonus award_points (after
\* user.points += bonus, at the level lookup) leaves the streak row
\* written and the bonus added without a level check.
update_daily_streak_fault(lv, st, user_id, user, day, fault) ==
    LET streak_data == get_or_create_user_streak(st, user_id)
    IN  IF fault = "streak_read"
        THEN [user |-> user, streaks |-> st]
        ELSE [user |-> [user EXCEPT !.points =
                           @ + streak_bonus(streak_data, day)],
              streaks |-> Put(st, user_id, streak_step(streak_data, day))]

\* progress_service.submit_quiz when the step named by fault raises
submit_quiz_fault(u, quiz_id, answers, fault) ==
    /\ u \in DOMAIN users
    /\ quiz_id \in DOMAIN QuizDefs
    /\ LET quiz == QuizDefs[quiz_id]
           score == quiz_score(quiz, answers)
           passed == quiz_passed(score)
           attempt_id == Len(attempts) + 1
           attempt == [user_id |-> u, quiz_id |-> quiz_id, score |-> score,
                       answers |-> answers, passed |-> passed,
                       completed_at |-> today]
           progress_in == UserProgressCreate(u, quiz_id, QUIZ_T,
                              attempt.completed_at,
                              [attempt_id |-> attempt_id, score |-> score,
                               passed |-> passed])
       IN  /\ fault = "award" => quiz_points(quiz, score) > 0
           /\ fault = "streak_award" =>
                 get_or_create_user_streak(streaks, u).last_completed_date
                     # today
           /\ fault = "badge_lookup" => passed
           /\ fault = "badge_insert" =>
                 passed /\ quiz_badges(badgeLinks, badges, u, passed, score)
                               # badgeLinks
           /\ IF fault \in PropagatingFaults
              THEN /\ last' = Call("submit_quiz", u, <<quiz_id, fault>>, "error")
                   /\ UNCHANGED <<today, users, levels, badges, badgeLinks,
                                  streaks, progress, attempts, submissions, inflight>>
              ELSE /\ attempts' = Append(attempts, attempt)
                   /\ \E p2 \in create_user_progress(progress, progress_in) :
                      \E ua \in award_points(levels, users[u],
                                             quiz_points(quiz, score)) :
                      \E r \in (IF fault \in {"streak_read", "streak_award"}
                                THEN {update_daily_streak_fault(levels, streaks,
                                          u, ua, today, fault)}
                                ELSE {[user |-> x.user,
                                       streaks |-> Put(streaks, u, x.streak)] :
                                         x \in update_daily_streak(levels,
                                                   streaks, u, ua, today)}) :
                         /\ progress' = p2
                         /\ users' = [users EXCEPT ![u] = r.user]
                         /\ streaks' = r.streaks
                   /\ badgeLinks' = IF fault = "badge_insert" THEN badgeLinks
                                    ELSE quiz_badges(badgeLinks, badges, u,
                                                     passed, score)
                   /\ last' = Call("submit_quiz", u, <<quiz_id, fault>>, "ok")
                   /\ UNCHANGED <<today, levels, badges, submissions, inflight>>

\* progress_service.submit_assignment(db, user, assignment_id, content)
submit_assignment(u, assignment_id) ==
    /\ u \in DOMAIN users
    /\ IF assignment_id \notin DOMAIN AssignmentDefs
       THEN /\ last' = Call("submit_assignment", u, <<assignment_id>>, "not_found")
            /\ UNCHANGED <<today, users, levels, badges, badgeLinks, streaks,
                           progress, attempts, submissions, inflight>>
       ELSE
       LET assignment == AssignmentDefs[assignment_id]
           submission_id == Len(submissions) + 1
           submission == [user_id |-> u, assignment_id |-> assignment_id,
                          submitted_at |-> today, status |-> "submitted",
                          grade |-> NoGrade, feedback |-> NoFeedback,
                          graded_at |-> NoDate]
           progress_in == UserProgressCreate(u, assignment_id, ASSIGNMENT_T,
                              submission.submitted_at,
                              [submission_id |-> submission_id,
                               status |-> "submitted"])
       IN  /\ submissions' = Append(submissions, submission)
           /\ \E p2 \in create_user_progress(progress, progress_in) :
              \E ua \in award_points(levels, users[u],
                                     submission_points(assignment)) :
              \E r \in update_daily_streak(levels, streaks, u, ua, today) :
                 /\ progress' = p2
                 /\ users' = [users EXCEPT ![u] = r.user]
                 /\ streaks' = Put(streaks, u, r.streak)
           /\ last' = Call("submit_assignment", u, <<assignment_id>>, "ok")
           /\ UNCHANGED <<today, levels, badges, badgeLinks, attempts, inflight>>

\* variant: a submission whose stored status is "passed" earns nothing more
grade_assignment_once(submission_id, status, grade, feedback) ==
    IF submission_id \notin DOMAIN submissions
    THEN /\ last' = Call("grade_assignment", "-", <<submission_id>>, "not_found")
         /\ UNCHANGED <<today, users, levels, badges, badgeLinks, streaks,
                        progress, attempts, submissions, inflight>>
    ELSE
    LET updated_submission ==
            update_assignment_submission(submissions[submission_id],
                                         status, grade, feedback, today)
        u == updated_submission.user_id
        assignment == AssignmentDefs[updated_submission.assignment_id]
        found == get_user_progress_for_item(progress, u,
                     updated_submission.assignment_id, ASSIGNMENT_T)
    IN  /\ submissions' = [submissions EXCEPT ![submission_id] = updated_submission]
        /\ \E row \in found :
              progress' = IF row # NoMeta
                          THEN replace_row(progress, row,
                                   [row EXCEPT !.meta_data =
                                       dict_update(@, [status |-> status,
                                                       grade |-> grade])])
                          ELSE progress
        /\ IF status = "passed" /\ submissions[submission_id].status # "passed"
           THEN /\ \E uf \in award_points(levels, users[u],
                                          passing_points(assignment, grade)) :
                      users' = [users EXCEPT ![u] = uf]
                /\ badgeLinks' = assignment_badges(badgeLinks, badges, u, grade)
           ELSE UNCHANGED <<users, badgeLinks>>
        /\ last' = Call("grade_assignment", u,
                        <<submission_id, status, grade, feedback>>, "ok")
        /\ UNCHANGED <<today, levels, badges, streaks, attempts, inflight>>

\* progress_service.grade_assignment(db, submission_id, status, grade, feedback)
grade_assignment(submission_id, status, grade, feedback) ==
    IF submission_id \notin DOMAIN submissions
    THEN /\ last' = Call("grade_assignment", "-", <<submission_id>>, "not_found")
         /\ UNCHANGED <<today, users, levels, badges, badgeLinks, streaks,
                        progress, attempts, submissions, inflight>>
    ELSE
    LET updated_submission ==
            update_assignment_submission(submissions[submission_id],
                                         status, grade, feedback, today)
        u == updated_submission.user_id
        assignment == AssignmentDefs[updated_submission.assignment_id]
        found == get_user_progress_for_item(progress, u,
                     updated_submission.assignment_id, ASSIGNMENT_T)
    IN  /\ submissions' = [submissions EXCEPT ![submission_id] = updated_submission]
        /\ \E row \in found :
              progress' = IF row # NoMeta
                          THEN replace_row(progress, row,
                                   [row EXCEPT !.meta_data =
                                       dict_update(@, [status |-> status,
                                                       grade |-> grade])])
                          ELSE progress
        /\ IF status = "passed"
           THEN /\ \E uf \in award_points(levels, users[u],
                                          passing_points(assignment, grade)) :
                      users' = [users EXCEPT ![u] = uf]
                /\ badgeLinks' = assignment_badges(badgeLinks, badges, u, grade)
           ELSE UNCHANGED <<users, badgeLinks>>
        /\ last' = Call("grade_assignment", u,
                        <<submission_id, status, grade, feedback>>, "ok")
        /\ UNCHANGED <<today, levels, badges, streaks, attempts, inflight>>

\* gamification_service.award_points(db, user, points_to_add)
AwardPoints(u, points_to_add) ==
    /\ u \in DOMAIN users
    /\ \E uf \in award_points(levels, users[u], points_to_add) :
          users' = [users EXCEPT ![u] = uf]
    /\ last' = Call("award_points", u, <<points_to_add>>, "ok")
    /\ UNCHANGED <<today, levels, badges, badgeLinks, streaks, progress,
                   attempts, submissions, inflight>>

\* admin_create_new_badge -> crud_gamification.create_badge
create_badge(name) ==
    /\ name \notin badges
    /\ badges' = badges \cup {name}
    /\ last' = Call("create_badge", "-", <<name>>, "ok")
    /\ UNCHANGED <<today, users, levels, badgeLinks, streaks, progress,
                   attempts, submissions, inflight>>

\* one request session calling
\* gamification_service.check_and_award_badge(db, user, badge_name,
\* check_existing) once for each element of calls
CheckAndAwardBadge(u, calls) ==
    /\ u \in DOMAIN users
    /\ LET r == badge_calls([links |-> badgeLinks, held |-> NotLoaded,
                             rets |-> <<>>], badges, u, calls)
       IN  /\ badgeLinks' = r.links
           /\ last' = Call("check_and_award_badge", u, calls, r.rets)
    /\ UNCHANGED <<today, users, levels, badges, streaks, progress, attempts,
                   submissions, inflight>>

\* ------------------------------------------------ concurrent requests
\* Every request runs in a Session of its own (get_db): what it reads is what
\* other requests have written before, and what it writes reaches the store
\* when it ends.  A request is modelled in two steps, the reads it decides on
\* and the writes that follow from them; between the two another request
\* may run.
RequestIds == {"r1", "r2"}

Drop(table, key) == [k \in DOMAIN table \ {key} |-> table[k]]

\* the UPDATE a session issues for a loaded row: the columns the request
\* assigned a new value to, the others stay as they are stored
flush_row(stored, read, new) ==
    [f \in DOMAIN new |-> IF new[f] # read[f] THEN new[f] ELSE stored[f]]

\* variant: (user_id, item_id, item_type) is unique, an insert for a key
\* that is stored is refused
create_user_progress_write_unique(prog, existing, progress_in) ==
    IF existing # NoMeta
    THEN prog
    ELSE IF progress_rows_for_item(prog, progress_in.user_id,
                progress_in.item_id, progress_in.item_type) # {}
         THEN prog
         ELSE prog (+) SetToBag({progress_in})

\* create_user_progress after its lookup returned `existing`: the branch
\* taken and the row written
create_user_progress_write(prog, existing, progress_in) ==
    IF existing # NoMeta
    THEN IF existing.completed_at = NoDate
            /\ progress_in.completed_at # NoDate
         THEN replace_row(prog, existing,
                  [existing EXCEPT
                      !.completed_at = progress_in.completed_at,
                      !.meta_data = IF progress_in.meta_data # NoMeta
                                    THEN progress_in.meta_data
                                    ELSE existing.meta_data])
         ELSE prog
    ELSE prog (+) SetToBag({progress_in})

\* mark_item_complete, first step: the request loads the user, looks the
\* item's progress row up and reads the streak row
BeginMarkItemComplete(r, u, item_id, item_type) ==
    /\ r \notin DOMAIN inflight
    /\ u \in DOMAIN users
    /\ u \in DOMAIN streaks
    /\ \E existing \in get_user_progress_for_item(progress, u, item_id,
                                                  item_type) :
          inflight' = Put(inflight, r,
                          [user_id |-> u, item_id |-> item_id,
                           item_type |-> item_type, existing |-> existing,
                           user |-> users[u], streaks |-> streaks,
                           day |-> today])
    /\ last' = Call("begin", u, <<r, item_id, item_type>>, "ok")
    /\ UNCHANGED <<today, users, levels, badges, badgeLinks, streaks, progress,
                   attempts, submissions>>

\* mark_item_complete, second step: the rows the request adds and changes
\* are written
CommitMarkItemComplete(r) ==
    /\ r \in DOMAIN inflight
    /\ LET q == inflight[r]
           u == q.user_id
       IN  /\ \E res \in update_daily_streak(levels, q.streaks, u, q.user,
                                             q.day) :
              \E uf \in (IF q.item_type = MODULE_T
                         THEN award_points(levels, res.user, ModulePoints)
                         ELSE {res.user}) :
                 /\ progress' = create_user_progress_write(progress,
                                    q.existing,
                                    UserProgressCreate(u, q.item_id,
                                        q.item_type, q.day, NoMeta))
                 /\ streaks' = Put(streaks, u,
                                   flush_row(streaks[u], q.streaks[u],
                                             res.streak))
                 /\ users' = [users EXCEPT
                                 ![u] = flush_row(users[u], q.user, uf)]
           /\ last' = Call("mark_item_complete", u,
                           <<q.item_id, q.item_type, r>>, "ok")
    /\ inflight' = Drop(inflight, r)
    /\ UNCHANGED <<today, levels, badges, badgeLinks, attempts, submissions>>

\* every user's points total is at most n
PointsWithin(n) == \A u \in DOMAIN users : users[u].points <= n

\* the requests of the progress endpoints and the streak service on a
\* seeded store, over MaxDay days, with at most MaxRecords attempts and
\* submissions in all and points up to MaxPoints
Next ==
    \/ \E d \in 1..MaxDay : AdvanceDay(d) /\ today' <= MaxDay
    \/ \E u \in UserIds : create_user_from_supabase(u)
    \/ \E u \in UserIds : UpdateDailyStreak(u) /\ PointsWithin(MaxPoints)'
    \/ \E u \in UserIds, i \in ItemIds, t \in CompletableTypes :
          mark_item_complete(u, i, t) /\ PointsWithin(MaxPoints)'
    \/ \E u \in UserIds, qa \in QuizInputs :
          /\ Len(attempts) + Len(submissions) < MaxRecords
          /\ submit_quiz(u, qa[1], qa[2])
          /\ PointsWithin(MaxPoints)'
    \/ \E u \in UserIds, a \in AssignmentIds :
          /\ Len(attempts) + Len(submissions) < MaxRecords
          /\ submit_assignment(u, a)
          /\ PointsWithin(MaxPoints)'
    \/ \E s \in 1..(Len(submissions) + 1), st \in GradeStatuses,
          g \in GradeValues, f \in Feedbacks :
          grade_assignment(s, st, g, f) /\ PointsWithin(MaxPoints)'

Spec == Init /\ [][Next]_vars

\* the points ledger under level administration, from the empty store,
\* with at most MaxLevels levels and points up to MaxPoints
NextLedger ==
    \/ \E u \in UserIds : create_user_from_supabase(u)
    \/ \E n \in LevelNames, m \in LevelMinPoints :
          create_level(n, m) /\ Cardinality(DOMAIN levels') <= MaxLevels
    \/ \E l \in 1..MaxLevels, n \in LevelNames \cup {Unset},
          m \in LevelMinPoints \cup {UnsetPoints} : update_level(l, n, m)
    \/ \E u \in UserIds, d \in Deltas :
          AwardPoints(u, d) /\ PointsWithin(MaxPoints)'

SpecLedger == InitLedger /\ [][NextLedger]_vars

\* daily activity (streak calls and item completions) over MaxStreakDay
\* days, with gaps of up to MaxDay days
NextStreak ==
    \/ \E d \in 1..MaxDay : AdvanceDay(d) /\ today' <= MaxStreakDay
    \/ \E u \in UserIds : create_user_from_supabase(u)
    \/ \E u \in UserIds : UpdateDailyStreak(u)
    \/ \E u \in UserIds, i \in ItemIds :
          mark_item_complete(u, i, RESOURCE_T)

SpecStreak == Init /\ [][NextStreak]_vars

\* quiz submissions, re-attempts included, over MaxDay days with at most
\* MaxAttempts attempts
NextQuiz ==
    \/ \E d \in 1..MaxDay : AdvanceDay(d) /\ today' <= MaxDay
    \/ \E u \in UserIds : create_user_from_supabase(u)
    \/ \E u \in UserIds, q \in AllQuizIds, a \in QuizAnswerMaps :
          Len(attempts) < MaxAttempts /\ submit_quiz(u, q, a)

SpecQuiz == Init /\ [][NextQuiz]_vars

\* assignment submissions and gradings, re-gradings included, over MaxDay
\* days with at most MaxSubmissions submissions and points up to
\* MaxGradePoints
NextAssign ==
    \/ \E d \in 1..MaxDay : AdvanceDay(d) /\ today' <= MaxDay
    \/ \E u \in UserIds : create_user_from_supabase(u)
    \/ \E u \in UserIds, a \in AllAssignmentIds :
          Len(submissions) < MaxSubmissions /\ submit_assignment(u, a)
    \/ \E s \in 1..(Len(submissions) + 1), st \in AssignStatuses,
          g \in AssignGradeValues, f \in Feedbacks :
          grade_assignment(s, st, g, f) /\ PointsWithin(MaxGradePoints)'

SpecAssign == Init /\ [][NextAssign]_vars

\* quiz submissions in which one step may fail, over MaxDay days with at
\* most MaxAttempts attempts
NextFaults ==
    \/ \E d \in 1..MaxDay : AdvanceDay(d) /\ today' <= MaxDay
    \/ \E u \in UserIds : create_user_from_supabase(u)
    \/ \E u \in UserIds, a \in AnswerMaps :
          Len(attempts) < MaxAttempts /\ submit_quiz(u, "q1", a)
    \/ \E u \in UserIds, a \in AnswerMaps, f \in QuizFaults :
          Len(attempts) < MaxAttempts /\ submit_quiz_fault(u, "q1", a, f)

SpecFaults == Init /\ [][NextFaults]_vars

\* a store with level definitions and no badge definitions
InitNoBadges ==
    /\ today = 1
    /\ users = EmptyTable
    /\ levels = SeedLevels
    /\ badges = {}
    /\ badgeLinks = EmptyBag
    /\ streaks = EmptyTable
    /\ progress = EmptyBag
    /\ attempts = <<>>
    /\ submissions = <<>>
    /\ last = Call("init", "-", <<>>, "ok")
    /\ inflight = EmptyTable

\* badge names and arguments of direct check_and_award_badge calls
CalledBadges == {"Quiz Taker", "Top Marks"}
BadgeCalls == [badge_name : CalledBadges, check_existing : BOOLEAN]
BadgeCallSeqs == {<<c>> : c \in BadgeCalls}
                 \cup {<<c, d>> : c \in BadgeCalls, d \in BadgeCalls}

\* answer maps of the badge specification: 4 of 4, 3 of 4 and 2 of 4 on q1
BadgeAnswerMaps ==
    {a \in AnswerMaps : correct_answers_count(QuizDefs["q1"], a) >= 2}

\* badge administration, direct badge awards, quiz submissions and
\* gradings, with at most MaxRecords attempts and submissions and at most
\* MaxLinks award links
NextBadges ==
    \/ \E u \in UserIds : create_user_from_supabase(u)
    \/ \E b \in BadgeNames : create_badge(b)
    \/ \E u \in UserIds, calls \in BadgeCallSeqs :
          CheckAndAwardBadge(u, calls) /\ BagCardinality(badgeLinks') <= MaxLinks
    \/ \E u \in UserIds, a \in BadgeAnswerMaps :
          /\ Len(attempts) + Len(submissions) < MaxRecords
          /\ submit_quiz(u, "q1", a)
    \/ \E u \in UserIds, a \in AssignmentIds \cap DOMAIN AssignmentDefs :
          /\ Len(attempts) + Len(submissions) < MaxRecords
          /\ submit_assignment(u, a)
    \/ \E s \in DOMAIN submissions, st \in GradeStatuses,
          g \in GradeValues, f \in Feedbacks :
          /\ grade_assignment(s, st, g, f)
          /\ PointsWithin(MaxPoints)'
          /\ BagCardinality(badgeLinks') <= MaxLinks

SpecBadges == InitNoBadges /\ [][NextBadges]_vars

\* requests of one user that overlap: a completion is either served in one
\* piece or begun and ended with other requests in between
NextRace ==
    \/ \E d \in 1..MaxDay : AdvanceDay(d) /\ today' <= MaxDay
    \/ \E u \in UserIds : create_user_from_supabase(u)
    \/ \E u \in UserIds, i \in ItemIds, t \in CompletableTypes :
          /\ mark_item_complete(u, i, t)
          /\ PointsWithin(MaxPoints)'
    \/ \E r \in RequestIds, u \in UserIds, i \in ItemIds,
          t \in CompletableTypes : BeginMarkItemComplete(r, u, i, t)
    \/ \E r \in RequestIds :
          CommitMarkItemComplete(r) /\ PointsWithin(MaxPoints)'

SpecRace == Init /\ [][NextRace]_vars

\* one user handing an assignment in more than once, an admin grading the
\* submissions in any order
NextResubmit ==
    \/ \E u \in UserIds : create_user_from_supabase(u)
    \/ \E u \in UserIds, a \in DOMAIN AssignmentDefs :
          Len(submissions) < MaxResubmissions /\ submit_assignment(u, a)
    \/ \E s \in 1..(Len(submissions) + 1), st \in GradeStatuses,
          g \in AssignGradeValues, f \in Feedbacks :
          grade_assignment(s, st, g, f) /\ PointsWithin(MaxGradePoints)'

SpecResubmit == Init /\ [][NextResubmit]_vars

\* ------------------------------------------------------------- claims

TypeOK ==
    /\ today \in 1..MaxStreakDay
    /\ DOMAIN inflight \subseteq RequestIds
    /\ \A u \in DOMAIN users : users[u].points \in Nat

\* the levels a point total qualifies for
Eligible(lv, points) == {l \in DOMAIN lv : lv[l].min_points <= points}

SameItem(r1, r2) ==
    /\ r1.user_id = r2.user_id
    /\ r1.item_id = r2.item_id
    /\ r1.item_type = r2.item_type

\* C1: under mark_item_complete, submit_quiz, submit_assignment,
\* grade_assignment and update_daily_streak calls every user's points is a
\* non-negative integer and no step lowers it.
C1_PointsMonotone ==
    [][\A u \in DOMAIN users' :
          /\ users'[u].points \in Nat
          /\ u \in DOMAIN users => users'[u].points >= users[u].points]_vars

C1_Witness ==
    /\ last.op = "grade_assignment"
    /\ last.ret = "ok"
    /\ \E u \in DOMAIN users : u = last.user /\ users[u].points >= 10

C4_HighestLevelAtOrBelow ==
    \A p \in 0..(MaxPoints + 1) :
        \A r \in get_level_by_points(levels, p) :
            IF \E l \in DOMAIN levels : levels[l].min_points <= p
            THEN /\ r \in DOMAIN levels
                 /\ levels[r].min_points <= p
                 /\ \A m \in DOMAIN levels :
                       levels[m].min_points <= p
                           => levels[m].min_points <= levels[r].min_points
            ELSE r = NoLevel

C4_Witness ==
    /\ Cardinality(DOMAIN levels) = 2
    /\ levels[1].min_points = 6
    /\ levels[2].min_points = 3
    /\ get_level_by_points(levels, 2) = {NoLevel}
    /\ get_level_by_points(levels, 5) = {2}
    /\ get_level_by_points(levels, 6) = {1}

\* C5: award_points never lowers a user's level: a user who held a level
\* keeps one whose min_points is at least as great, and the reference
\* changes only to the resolved level and only when its min_points is
\* strictly greater than the current one's (none counting as -1).
C5_NeverLowersLevel ==
    [][last'.op = "award_points" =>
          LET u == last'.user
              old == users[u].level_id
              new == users'[u].level_id
          IN  /\ old # NoLevel =>
                    /\ new # NoLevel
                    /\ levels[new].min_points >= levels[old].min_points
              /\ new # old =>
                    /\ new \in get_level_by_points(levels, users'[u].points)
                    /\ old = NoLevel
                       \/ levels[new].min_points > levels[old].min_points]_vars

C5_Witness ==
    /\ last.op = "award_points"
    /\ last.args[1] > 0
    /\ LET level_id == users[last.user].level_id
       IN  /\ level_id # NoLevel
           /\ levels[level_id].min_points > users[last.user].points
           /\ Eligible(levels, users[last.user].points) # {}

\* C6: there is at most one progress record per (user, item_id, item_type).
C6_OneRecordPerItem ==
    \A r1 \in BagToSet(progress) :
        /\ CopiesIn(r1, progress) = 1
        /\ \A r2 \in BagToSet(progress) : SameItem(r1, r2) => r1 = r2

C6_Witness ==
    /\ last.op = "mark_item_complete"
    /\ \E r \in BagToSet(progress) :
          /\ r.user_id = last.user
          /\ <<r.item_id, r.item_type>> = last.args
          /\ r.completed_at < today

\* C7: once a progress record's completed_at is set no later call changes
\* it; a call writes completed_at of an existing record only when the
\* stored value is null.
C7_CompletedAtKept ==
    [][\A r \in BagToSet(progress) :
          /\ \E r2 \in BagToSet(progress') : SameItem(r, r2)
          /\ \A r2 \in BagToSet(progress') :
                SameItem(r, r2) =>
                    \/ r2.completed_at = r.completed_at
                    \/ r.completed_at = NoDate]_vars

C7_Witness ==
    /\ last.op = "grade_assignment"
    /\ last.ret = "ok"
    /\ \E r \in BagToSet(progress) :
          /\ r.user_id = last.user
          /\ r.item_type = ASSIGNMENT_T
          /\ r.item_id = submissions[last.args[1]].assignment_id
          /\ "grade" \in DOMAIN r.meta_data
          /\ r.completed_at < today

\* C8 (as claimed): a second mark_item_complete call for the same user and
\* item on the same day leaves the progress record, the streak record and
\* the user's points as the first call left them.
C8_MarkIdempotent ==
    [][(/\ last'.op = "mark_item_complete"
        /\ \E r \in BagToSet(progress) :
              /\ r.user_id = last'.user
              /\ <<r.item_id, r.item_type>> = last'.args
              /\ r.completed_at = today)
       => /\ progress' = progress
          /\ streaks' = streaks
          /\ users'[last'.user].points = users[last'.user].points]_vars

\* C9: every streak record has longest_streak >= current_streak >= 0.
C9_StreakOrder ==
    \A u \in DOMAIN streaks :
        /\ streaks[u].longest_streak >= streaks[u].current_streak
        /\ streaks[u].current_streak >= 0

C9_Witness ==
    \E u \in DOMAIN streaks :
        /\ streaks[u].longest_streak = 2
        /\ streaks[u].current_streak = 1
        /\ streaks[u].last_completed_date = today

\* C10: update_daily_streak for a user whose last_completed_date is today
\* changes neither the streak record nor the user's points, and no call of
\* any operation rewrites a streak record already dated today.
C10_SameDayNoOp ==
    [][\A u \in DOMAIN streaks :
          (streaks[u].last_completed_date = today /\ today' = today) =>
              /\ streaks'[u] = streaks[u]
              /\ (last'.op = "update_daily_streak" /\ last'.user = u)
                     => users'[u] = users[u]]_vars

C10_Witness ==
    /\ last.op = "update_daily_streak"
    /\ last.args = <<today>>
    /\ streaks[last.user].last_completed_date = today
    /\ users[last.user].points > 0

\* the calls of the daily-activity specification, which award the streak
\* bonus and nothing else
StreakCall(c) == c.op \in {"update_daily_streak", "mark_item_complete"}

\* C11: activity recorded on the day after last_completed_date raises
\* current_streak by exactly 1 and awards min(new current_streak, 5) bonus
\* points; the first activity of a user without a streak record gives
\* current_streak 1, so n consecutive days from no record give n.
C11_ConsecutiveDay ==
    [][StreakCall(last') =>
          LET u == last'.user
              before == get_or_create_user_streak(streaks, u)
          IN  /\ before.last_completed_date = today - 1 =>
                    /\ streaks'[u].current_streak = before.current_streak + 1
                    /\ users'[u].points - users[u].points
                           = Min(streaks'[u].current_streak, 5)
              /\ u \notin DOMAIN streaks => streaks'[u].current_streak = 1]_vars

C11_Witness ==
    /\ last.op = "update_daily_streak"
    /\ last.args = <<today - 1>>
    /\ streaks[last.user].current_streak = 6
    /\ streaks[last.user].last_completed_date = today

\* C12: activity recorded when last_completed_date is none or is neither
\* today nor yesterday sets current_streak to 1, awards exactly 1 bonus
\* point, sets last_completed_date to today and leaves longest_streak as it
\* was unless that was below 1.
C12_ResetToOne ==
    [][StreakCall(last') =>
          LET u == last'.user
              before == get_or_create_user_streak(streaks, u)
          IN  before.last_completed_date \notin {today, today - 1} =>
                 /\ streaks'[u].current_streak = 1
                 /\ users'[u].points - users[u].points = 1
                 /\ streaks'[u].last_completed_date = today
                 /\ streaks'[u].longest_streak
                        = Max(before.longest_streak, 1)]_vars

C12_Witness ==
    /\ last.op = "update_daily_streak"
    /\ last.args[1] \notin {NoDate, today, today - 1}
    /\ streaks[last.user].current_streak = 1
    /\ streaks[last.user].longest_streak >= 2
    /\ streaks[last.user].last_completed_date = today

\* option keys of the quiz questions
OptionKeys == {"a", "b"}

\* the questions of quiz whose submitted keys and correct keys are the
\* same set, a question missing from the answer map counting as no keys
CorrectQuestions(quiz, answers) ==
    {i \in DOMAIN quiz.questions :
        LET q == quiz.questions[i]
            submitted == IF q.id \in DOMAIN answers THEN answers[q.id] ELSE <<>>
        IN  \A k \in OptionKeys :
                (\E j \in DOMAIN submitted : submitted[j] = k)
                    <=> (\E j \in DOMAIN q.correct_option_keys :
                            q.correct_option_keys[j] = k)}

\* the bonus the streak update of a call for user u awards
StreakBonusOf(u) ==
    LET before == get_or_create_user_streak(streaks, u)
    IN  IF before.last_completed_date = today THEN 0
        ELSE IF before.last_completed_date = today - 1
             THEN Min(before.current_streak + 1, 5)
             ELSE 1

SubmitQuizOk(c) == c.op = "submit_quiz" /\ c.ret = "ok"

\* C13: for a quiz with n >= 1 questions submit_quiz records score = c / n,
\* c the number of questions whose submitted keys equal the correct keys as
\* sets, and passed is true exactly when 10 * c >= 7 * n.
C13_ScoreAndPassed ==
    [][SubmitQuizOk(last') =>
          LET attempt == attempts'[Len(attempts')]
              quiz == QuizDefs[attempt.quiz_id]
              n == Len(quiz.questions)
              c == Cardinality(CorrectQuestions(quiz, attempt.answers))
          IN  n >= 1 =>
                 /\ attempt.score[1] * n = c * attempt.score[2]
                 /\ attempt.passed = (10 * c >= 7 * n)]_vars

C13_Witness ==
    /\ SubmitQuizOk(last)
    /\ LET attempt == attempts[Len(attempts)]
       IN  /\ attempt.quiz_id = "q2"
           /\ attempt.score = <<7, 10>>
           /\ attempt.passed
           /\ attempt.answers = first_a(7)

\* C14 (as claimed): the points submit_quiz awards apart from the streak
\* bonus are points_reward + floor(5 * score) when passed,
\* floor(score * points_reward * 0.5) when not passed and score > 0, and 0
\* when score = 0, for score = c / n.
C14_QuizPoints ==
    [][SubmitQuizOk(last') =>
          LET u == last'.user
              attempt == attempts'[Len(attempts')]
              quiz == QuizDefs[attempt.quiz_id]
              n == Len(quiz.questions)
              c == Cardinality(CorrectQuestions(quiz, attempt.answers))
              awarded == users'[u].points - users[u].points - StreakBonusOf(u)
          IN  n >= 1 =>
                 awarded = IF 10 * c >= 7 * n
                           THEN quiz.points_reward + ((5 * c) \div n)
                           ELSE (c * quiz.points_reward) \div (2 * n)]_vars

\* C15: submit_quiz on a quiz with zero questions succeeds with score 0 and
\* passed false, awards no quiz points and no badge, and still adds the
\* attempt, the progress record and the daily streak update.
C15_ZeroQuestions ==
    [][(last'.op = "submit_quiz" /\ last'.args[1] \in DOMAIN QuizDefs
        /\ Len(QuizDefs[last'.args[1]].questions) = 0) =>
          LET u == last'.user
              attempt == attempts'[Len(attempts')]
          IN  /\ last'.ret = "ok"
              /\ Len(attempts') = Len(attempts) + 1
              /\ attempt.user_id = u /\ attempt.quiz_id = last'.args[1]
              /\ attempt.score[1] = 0
              /\ attempt.passed = FALSE
              /\ users'[u].points - users[u].points = StreakBonusOf(u)
              /\ badgeLinks' = badgeLinks
              /\ \E r \in BagToSet(progress') :
                    /\ r.user_id = u /\ r.item_id = last'.args[1]
                    /\ r.item_type = QUIZ_T
              /\ streaks'[u].last_completed_date = today]_vars

C15_Witness ==
    /\ SubmitQuizOk(last)
    /\ last.args = <<"q0">>
    /\ Len(attempts) = 1
    /\ attempts[1].score = <<0, 1>>
    /\ users[last.user].points = 1
    /\ streaks[last.user].current_streak = 1

\* C16: when the quiz, assignment or submission named in a call is absent
\* the call fails with a not-found error and changes no attempt,
\* submission, progress record, points, level, streak or badge state.
C16_NotFoundChangesNothing ==
    [][(\/ last'.op = "submit_quiz" /\ last'.args[1] \notin DOMAIN QuizDefs
        \/ last'.op = "submit_assignment"
              /\ last'.args[1] \notin DOMAIN AssignmentDefs
        \/ last'.op = "grade_assignment"
              /\ last'.args[1] \notin DOMAIN submissions) =>
          /\ last'.ret = "not_found"
          /\ UNCHANGED <<users, levels, badges, badgeLinks, streaks, progress,
                         attempts, submissions>>]_vars

C16_Witness ==
    /\ last.op = "submit_assignment"
    /\ last.ret = "not_found"
    /\ last.args = <<"ax">>
    /\ users[last.user].points > 0
    /\ progress # EmptyBag

\* C17 (as claimed): after every successful submit_quiz call, a re-attempt
\* included, the progress record for (user, quiz_id, QUIZ) carries the
\* attempt_id, score and passed of the attempt that call created.
C17_ProgressMetaLatest ==
    [][SubmitQuizOk(last') =>
          LET u == last'.user
              attempt_id == Len(attempts')
              attempt == attempts'[attempt_id]
          IN  \E r \in BagToSet(progress') :
                 /\ r.user_id = u /\ r.item_id = attempt.quiz_id
                 /\ r.item_type = QUIZ_T
                 /\ r.meta_data.attempt_id = attempt_id
                 /\ r.meta_data.score = attempt.score
                 /\ r.meta_data.passed = attempt.passed]_vars

\* the award link of user u for badge b
Link(u, b) == [user_id |-> u, badge |-> b]

\* C18 (as claimed): check_and_award_badge called with check_existing =
\* true for a defined badge, twice in one request or in two successive
\* requests, creates exactly one award link, and the second call returns
\* none.
C18_BadgeIdempotent ==
    [][last'.op = "check_and_award_badge" =>
          LET u == last'.user
              calls == last'.args
              rets == last'.ret
              b == calls[1].badge_name
          IN  (/\ \A i \in DOMAIN calls :
                     calls[i].check_existing /\ calls[i].badge_name = b
               /\ b \in badges
               /\ CopiesIn(Link(u, b), badgeLinks) <= 1) =>
                 /\ CopiesIn(Link(u, b), badgeLinks') = 1
                 /\ \A i \in DOMAIN calls :
                       (i > 1 \/ Link(u, b) \in BagToSet(badgeLinks))
                           => rets[i] = "none"]_vars

\* C19 (as claimed): there is at most one award link per (user, badge)
\* pair in every reachable state.
C19_OneLinkPerBadge ==
    \A l \in BagToSet(badgeLinks) : CopiesIn(l, badgeLinks) = 1

LinkAdded(u, b) ==
    CopiesIn(Link(u, b), badgeLinks') > CopiesIn(Link(u, b), badgeLinks)

\* C21: a "Quiz Taker" link is created only by a submit_quiz whose attempt
\* passed, a "Perfect Score" link only when its score is 1; an "Assignment
\* Complete" link only by a grade_assignment with status "passed", a "Top
\* Marks" link only when its grade is 1.0 as well; no other operation
\* creates these links.
C21_BadgesOnlyWhenQualified ==
    [][\A u \in UserIds :
          /\ LinkAdded(u, "Quiz Taker") =>
                /\ SubmitQuizOk(last') /\ last'.user = u
                /\ attempts'[Len(attempts')].passed
          /\ LinkAdded(u, "Perfect Score") =>
                /\ SubmitQuizOk(last') /\ last'.user = u
                /\ attempts'[Len(attempts')].score = <<1, 1>>
          /\ LinkAdded(u, "Assignment Complete") =>
                /\ last'.op = "grade_assignment" /\ last'.user = u
                /\ submissions'[last'.args[1]].status = "passed"
          /\ LinkAdded(u, "Top Marks") =>
                /\ last'.op = "grade_assignment" /\ last'.user = u
                /\ submissions'[last'.args[1]].status = "passed"
                /\ submissions'[last'.args[1]].grade = 10]_vars

C21_Witness ==
    /\ SubmitQuizOk(last)
    /\ attempts[Len(attempts)].score = <<3, 4>>
    /\ badgeLinks = SetToBag({Link(last.user, "Quiz Taker")})

GradeOk(c) == c.op = "grade_assignment" /\ c.ret = "ok"

\* the points a step adds to user u
PointsAdded(u) == users'[u].points - users[u].points

C24_GradedAtSet ==
    [][GradeOk(last') =>
          LET submission == submissions'[last'.args[1]]
          IN  /\ submission.status = last'.args[2]
              /\ submission.grade = last'.args[3]
              /\ submission.feedback = last'.args[4]
              /\ submission.graded_at # NoDate]_vars

\* C24 (amended): after every successful grade_assignment call the
\* submission's status, grade and feedback equal the arguments; graded_at
\* is the time of the call when the call changed status or grade, and is
\* left as it was (null if never set) otherwise.
C24_GradedAtOnChange ==
    [][GradeOk(last') =>
          LET before == submissions[last'.args[1]]
              submission == submissions'[last'.args[1]]
          IN  /\ submission.status = last'.args[2]
              /\ submission.grade = last'.args[3]
              /\ submission.feedback = last'.args[4]
              /\ submission.graded_at =
                    IF before.status # last'.args[2]
                       \/ before.grade # last'.args[3]
                    THEN today
                    ELSE before.graded_at]_vars

C24_Witness ==
    /\ GradeOk(last)
    /\ last.args = <<1, "submitted", NoGrade, "ok">>
    /\ submissions[1].status = "submitted"
    /\ submissions[1].feedback = "ok"
    /\ submissions[1].graded_at = NoDate

\* a submit_quiz call in which a step raised
QuizFaulted(c) == c.op = "submit_quiz" /\ Len(c.args) = 2

\* C25 (as claimed): submit_quiz is all-or-nothing: when a step after the
\* creation of the attempt record fails, the call leaves no attempt,
\* progress record, points change, streak change or badge link, so every
\* saved attempt comes with its points and its streak update.
C25_AllOrNothing ==
    [][/\ QuizFaulted(last') =>
             UNCHANGED <<users, streaks, progress, attempts, badgeLinks>>
       /\ Len(attempts') > Len(attempts) =>
             LET attempt == attempts'[Len(attempts')]
                 u == attempt.user_id
             IN  /\ u \in DOMAIN streaks'
                 /\ streaks'[u].last_completed_date = today
                 /\ PointsAdded(u)
                        = quiz_points(QuizDefs[attempt.quiz_id], attempt.score)
                          + StreakBonusOf(u)]_vars

\* C26 (as claimed): a failure inside the streak update or the badge-link
\* insert aborts the calling operation and rolls it back, and the caller
\* does not report success.
C26_AuxFailureAborts ==
    [][(QuizFaulted(last')
        /\ last'.args[2] \in {"streak_read", "streak_award", "badge_insert"})
          => /\ last'.ret # "ok"
             /\ UNCHANGED <<users, streaks, progress, attempts,
                            badgeLinks>>]_vars

\* the request that ends in this step, if one does
Ended(r) == r \in DOMAIN inflight /\ r \notin DOMAIN inflight'

\* number of stored progress rows for (user_id, item_id, item_type)
RecordCount(prog, user_id, item_id, item_type) ==
    BagCardinality(
        [r \in progress_rows_for_item(prog, user_id, item_id, item_type)
            |-> CopiesIn(r, prog)])

\* C27: nothing keeps two requests of one user for one item apart: a
\* request whose lookup found no progress record inserts one when it ends,
\* also when another request has inserted one for the same item in between,
\* so the store comes to hold two records for one (user, item_id, item_type).
C27_BothInsert ==
    [][\A r \in RequestIds :
          (Ended(r) /\ inflight[r].existing = NoMeta)
             => LET q == inflight[r]
                IN  RecordCount(progress', q.user_id, q.item_id, q.item_type)
                    = RecordCount(progress, q.user_id, q.item_id,
                                  q.item_type) + 1]_vars

C27_Witness ==
    /\ last.op = "mark_item_complete"
    /\ Len(last.args) = 3
    /\ RecordCount(progress, last.user, last.args[1], last.args[2]) = 2

\* C28 (as claimed): whatever levels an admin creates and updates, no two
\* of them have the same min_points, so at most one level is resolved for
\* a point total.
C28_MinPointsUnique ==
    /\ \A l, m \in DOMAIN levels :
          l # m => levels[l].min_points # levels[m].min_points
    /\ \A p \in 0..MaxPoints : Cardinality(get_level_by_points(levels, p)) = 1

\* the points a request adds to the user it loaded
RequestDelta(q) ==
    LET res == CHOOSE x \in update_daily_streak(levels, q.streaks, q.user_id,
                                                q.user, q.day) : TRUE
    IN  (res.user.points - q.user.points)
        + (IF q.item_type = MODULE_T THEN ModulePoints ELSE 0)

\* C29 (as claimed): when two requests that award points to one user
\* overlap, the stored total never goes down and every request's points
\* are in the total once it has ended.
C29_BothAwardsKept ==
    [][\A r \in RequestIds :
          Ended(r)
             => LET q == inflight[r]
                    u == q.user_id
                IN  /\ users'[u].points >= users[u].points
                    /\ users'[u].points
                           = users[u].points + RequestDelta(q)]_vars

\* C30 (as claimed): the metadata of an ASSIGNMENT progress record tells
\* the state of the submission its submission_id names: the same status
\* and, once a grade is recorded, the same grade, also when the user has
\* handed the assignment in several times.
C30_MetaMatchesSubmission ==
    \A r \in BagToSet(progress) :
        r.item_type = ASSIGNMENT_T
           => LET m == r.meta_data
                  s == submissions[m.submission_id]
              IN  /\ m.status = s.status
                  /\ "grade" \in DOMAIN m => m.grade = s.grade

====
